---- MODULE Spec2Model ----
(***************************************************************************)
(* Model of the two chart scripts of tax_wedge_2025:                       *)
(*   script 1  OECD_tax_wedge_by_taxpayer_type.py                          *)
(*             (dot-and-connector chart, sort dropdown, connector toggle)  *)
(*   script 2  oecd_tax_wedge_all_countries_all_incomes.py                 *)
(*             (one line per country and scenario, scenario dropdown)      *)
(* Each behaviour runs one of the two scripts top to bottom and then lets  *)
(* the user operate the controls of the rendered chart.                    *)
(*                                                                         *)
(* Python values are written as follows: True / False / 'legendonly' (the  *)
(* three values of a trace's `visible`) are the strings "True", "False",   *)
(* "legendonly"; None is "None"; the line widths 3 and 1.5 are the strings *)
(* "3" and "1.5"; a missing numeric cell is NaN, a missing text cell is    *)
(* NaNText; tax wedges are whole numbers.                                  *)
(***************************************************************************)
EXTENDS Integers, Sequences, FiniteSets, TLC

VARIABLES
    script,           \* which script this behaviour runs: 1 or 2
    fileExists,       \* the spreadsheet is at FILE / file_path
    workbook_sheets,  \* the sheet names the spreadsheet holds
    logoExists,       \* logo_full_white_on_blue.jpg is in the working directory
    raw,              \* the cells of the spreadsheet
    pc,               \* the statement the script is at
    df,               \* script 1: df;  script 2: dfs
    sorted_data,      \* script 1: sorted_data (sort column -> View)
    fig_data,         \* fig.data: the traces, in the order they were added
    fig_layout,       \* fig.layout: y-axis ticks and images
    buttons,          \* the dropdown's buttons
    updatemenus,      \* fig.layout.updatemenus, with each menu's active index
    stdout,           \* lines printed
    shown,            \* fig.show() was reached
    exported          \* script 2: write_html was reached

vars == <<script, fileExists, workbook_sheets, logoExists, raw, pc, df,
          sorted_data, fig_data, fig_layout, buttons, updatemenus, stdout,
          shown, exported>>

(***************************************************************************)
(* Bounds of the model                                                     *)
(***************************************************************************)
\* most rows a script-1 spreadsheet holds
MaxRows == 3
\* most rows (income levels) a script-2 sheet holds
MaxLen == 3

(***************************************************************************)
(* Helpers                                                                 *)
(***************************************************************************)
NaN == -1
NaNText == "nan"
None == "None"

Range(s) == {s[i] : i \in 1..Len(s)}
Reverse(s) == [i \in 1..Len(s) |-> s[Len(s) + 1 - i]]
Max(S) == CHOOSE m \in S : \A k \in S : k <= m
Min(S) == CHOOSE m \in S : \A k \in S : m <= k
InjectiveSeqs(S, n) ==
    {s \in UNION {[1..k -> S] : k \in 0..n} :
        \A i, j \in 1..Len(s) : i # j => s[i] # s[j]}

RECURSIVE Concat(_)
\* the concatenation of a sequence of sequences
Concat(ss) == IF ss = <<>> THEN <<>> ELSE Head(ss) \o Concat(Tail(ss))

(***************************************************************************)
(* Script 1: constants                                                     *)
(***************************************************************************)
SHEET == "Tax wedges 2024"
connector_color == "gray"
highlight_color == "red"
sort_columns_list == <<"single_worker", "family_single_earner", "family_two_earners">>
initial_sort_column == "single_worker"

(***************************************************************************)
(* Script 1: the spreadsheets tried.  A spreadsheet is a sequence of at    *)
(* most MaxRows different rows of RowPool; columns A-D carry the names     *)
(* that line 32 gives them.                                                *)
(***************************************************************************)
Row(c, a, b, d) ==
    [Country |-> c, single_worker |-> a, family_single_earner |-> b,
     family_two_earners |-> d]

RowPool ==
    { Row("France", 30, 35, 40),
      Row("Spain", 28, 30, 45),
      Row("United Kingdom", 30, 20, 45),
      Row("united kingdom", 10, 50, 20),
      Row("Germany", 47, NaN, 40),
      Row(NaNText, 20, 20, NaN) }

RawTables == InjectiveSeqs(RowPool, MaxRows)

(***************************************************************************)
(* Script 1: loading (lines 25-34)                                         *)
(***************************************************************************)
\* DataFrame.dropna(): keeps the rows without a missing cell
dropna(t) ==
    SelectSeq(t, LAMBDA r :
        /\ r.Country # NaNText
        /\ \A k \in 1..Len(sort_columns_list) : r[sort_columns_list[k]] # NaN)

num_countries == Len(df)

(***************************************************************************)
(* Script 1: sorting (line 41).  sort_values(col, ascending=False) sorts   *)
(* the reversed rows ascending and reverses the result; on the at most 16  *)
(* rows tried the ascending sort is numpy's insertion sort.                *)
(***************************************************************************)
RECURSIVE InsertAsc(_, _, _)
InsertAsc(s, r, col) ==
    IF s = <<>> THEN <<r>>
    ELSE IF s[Len(s)][col] <= r[col] THEN Append(s, r)
    ELSE Append(InsertAsc(SubSeq(s, 1, Len(s) - 1), r, col), s[Len(s)])

RECURSIVE SortAsc(_, _)
SortAsc(t, col) ==
    IF t = <<>> THEN <<>>
    ELSE InsertAsc(SortAsc(SubSeq(t, 1, Len(t) - 1), col), t[Len(t)], col)

sort_values_ascending(t, col) == SortAsc(t, col)

sort_values(t, col) == Reverse(SortAsc(Reverse(t), col))

(***************************************************************************)
(* Script 1: the View of one sort column (lines 40-91)                     *)
(***************************************************************************)
\* a comparison that ignores the case of the name
line_color_any_case(country) ==
    IF country \in {"United Kingdom", "united kingdom"}
    THEN highlight_color ELSE connector_color

\* line 54
line_color(country) ==
    IF country = "United Kingdom" THEN highlight_color ELSE connector_color

\* line 55
line_width(country) == IF country = "United Kingdom" THEN "3" ELSE "1.5"

\* lines 79-82
tick_label(country_name) ==
    IF country_name = "United Kingdom"
    THEN "<b><span style='color:" \o highlight_color \o ";'>" \o country_name
             \o "</span></b>"
    ELSE country_name

\* df_sorted[col].tolist()
tolist(t, col) == [i \in 1..Len(t) |-> t[i][col]]

\* the View without its last point entry: what a loop body that loses the
\* two-earner append would build
BuildViewShort(t, col_name) ==
    LET df_sorted == sort_values(t, col_name)
        n == Len(df_sorted)
        Country == tolist(df_sorted, "Country")
    IN  [trace_x_values |->
             [i \in 1..n |-> <<df_sorted[i].single_worker,
                               df_sorted[i].family_single_earner,
                               df_sorted[i].family_two_earners>>]
             \o <<tolist(df_sorted, "single_worker"),
                  tolist(df_sorted, "family_single_earner")>>,
         trace_y_values |->
             [i \in 1..n |-> <<Country[i], Country[i], Country[i]>>]
             \o <<Country, Country>>,
         trace_line_colors |->
             [i \in 1..n |-> line_color(Country[i])] \o <<None, None>>,
         trace_line_widths |->
             [i \in 1..n |-> line_width(Country[i])] \o <<None, None>>,
         tick_labels |-> [i \in 1..n |-> tick_label(Country[i])],
         country_order |-> Country]

\* one iteration of the loop of line 40: sorted_data[col_name]
BuildView(t, col_name) ==
    LET df_sorted == sort_values(t, col_name)
        n == Len(df_sorted)
        Country == tolist(df_sorted, "Country")
    IN  [trace_x_values |->
             [i \in 1..n |-> <<df_sorted[i].single_worker,
                               df_sorted[i].family_single_earner,
                               df_sorted[i].family_two_earners>>]
             \o <<tolist(df_sorted, "single_worker"),
                  tolist(df_sorted, "family_single_earner"),
                  tolist(df_sorted, "family_two_earners")>>,
         trace_y_values |->
             [i \in 1..n |-> <<Country[i], Country[i], Country[i]>>]
             \o <<Country, Country, Country>>,
         trace_line_colors |->
             [i \in 1..n |-> line_color(Country[i])] \o <<None, None, None>>,
         trace_line_widths |->
             [i \in 1..n |-> line_width(Country[i])] \o <<None, None, None>>,
         tick_labels |-> [i \in 1..n |-> tick_label(Country[i])],
         country_order |-> Country]

(***************************************************************************)
(* Script 1: the figure (lines 93-152, 168-175)                            *)
(***************************************************************************)
initial_data == sorted_data[initial_sort_column]

\* go.Scatter(mode='lines', ..., showlegend=False): lines 102-109
ConnectorTrace(i) ==
    [x |-> initial_data.trace_x_values[i],
     y |-> initial_data.trace_y_values[i],
     mode |-> "lines",
     line_color |-> initial_data.trace_line_colors[i],
     line_width |-> initial_data.trace_line_widths[i],
     name |-> None, showlegend |-> FALSE, visible |-> "True"]

\* go.Scatter(mode='markers', name=...): lines 112-152
PointTrace(k, name) ==
    [x |-> initial_data.trace_x_values[num_countries + k],
     y |-> initial_data.trace_y_values[num_countries + k],
     mode |-> "markers",
     line_color |-> None, line_width |-> None,
     name |-> name, showlegend |-> TRUE, visible |-> "True"]

InitialTraces ==
    [i \in 1..num_countries |-> ConnectorTrace(i)]
    \o <<PointTrace(1, "Single worker"), PointTrace(2, "Single-earner family"),
         PointTrace(3, "Two-earner family")>>

(***************************************************************************)
(* Script 1: the controls (lines 222-305)                                  *)
(***************************************************************************)
\* sort_col_name.replace("_", " ").title(), line 225
button_label(sort_col_name) ==
    CASE sort_col_name = "single_worker" -> "Single Worker"
      [] sort_col_name = "family_single_earner" -> "Family Single Earner"
      [] sort_col_name = "family_two_earners" -> "Family Two Earners"

\* lines 224-252
SortButton(sort_col_name) ==
    LET data_for_button == sorted_data[sort_col_name]
    IN  [label |-> button_label(sort_col_name),
         method |-> "update",
         args |-> <<[x |-> data_for_button.trace_x_values,
                     y |-> data_for_button.trace_y_values,
                     line_color |-> data_for_button.trace_line_colors,
                     line_width |-> data_for_button.trace_line_widths],
                    [ticktext |-> data_for_button.tick_labels,
                     tickvals |-> data_for_button.country_order]>>]

\* line 257
connector_trace_indices == [i \in 1..num_countries |-> i - 1]

\* [v] * n
Repeat(v, n) == [i \in 1..n |-> v]

\* lines 259-284.  No `active` is given, so the menu starts with Plotly's
\* default active = 0: its only button counts as active.
toggle_connectors_button ==
    [type |-> "buttons",
     active |-> 0,
     buttons |-> <<
        [label |-> "Toggle Connectors",
         method |-> "restyle",
         args |-> <<[visible |-> Repeat("False", num_countries)
                                  \o <<"True", "True", "True">>],
                    connector_trace_indices
                    \o <<num_countries, num_countries + 1, num_countries + 2>> >>,
         args2 |-> <<[visible |-> Repeat("True", num_countries)
                                   \o <<"True", "True", "True">>],
                     connector_trace_indices
                     \o <<num_countries, num_countries + 1, num_countries + 2>> >>]
     >>]

\* lines 289-302; active is Plotly's default 0, the first button
sort_dropdown(bs) == [type |-> "dropdown", active |-> 0, buttons |-> bs]

(***************************************************************************)
(* Script 2: constants                                                     *)
(***************************************************************************)
sheet_names ==
    <<"single_no_children", "single_two_children", "married_2_children",
      "married_no_children">>

colours ==
    <<"black", "blue", "blueviolet", "brown", "cadetblue", "chocolate", "coral",
      "crimson", "cyan", "darkblue", "darkcyan", "darkgoldenrod", "darkgreen",
      "darkmagenta", "darkolivegreen", "darkorange", "darkorchid", "darkred",
      "darksalmon", "darkslateblue", "darkslategray", "darkturquoise",
      "darkviolet", "deeppink", "deepskyblue", "dodgerblue", "firebrick",
      "forestgreen", "fuchsia", "green", "hotpink", "indianred", "indigo",
      "maroon", "mediumblue", "mediumorchid", "mediumseagreen",
      "mediumslateblue", "orangered", "purple">>

red_country == "United Kingdom"

highlight ==
    {"United Kingdom", "United States", "France", "Germany", "Italy", "Spain",
     "Canada", "Sweden", "Belgium", "Netherlands", "Poland", "Türkiye"}

default_sheet == sheet_names[1]

(***************************************************************************)
(* Script 2: the spreadsheets tried.  Every sheet has one of ColumnLists   *)
(* as its country columns; the cells of a column are one sequence of at    *)
(* most MaxLen wedges and gaps holding at least one wedge, read downwards  *)
(* in the odd columns and upwards in the even ones.  A sheet is [columns,  *)
(* values], values[j] being the cells of column j.                         *)
(***************************************************************************)
ColumnLists ==
    { <<"Austria", "United Kingdom">>,
      <<"United Kingdom", "France", "Iceland">> }

RawColumns ==
    {c \in UNION {[1..n -> {NaN, 12, 36}] : n \in 1..MaxLen} :
        \E i \in 1..Len(c) : c[i] # NaN}

\* pd.read_excel(file_path, sheet_name=sheet, ...), lines 27-33
read_sheet(book, k) ==
    [columns |-> book.cols[k],
     values |-> [j \in 1..Len(book.cols[k]) |->
                    IF j % 2 = 1 THEN book.col ELSE Reverse(book.col)]]

(***************************************************************************)
(* Script 2: Series.interpolate(method='linear') with pandas' defaults     *)
(* (limit_direction='forward', no limit): the values are taken as equally  *)
(* spaced; a gap between two values is filled on the straight line between *)
(* them, a gap after the last value repeats it, a gap before the first     *)
(* value stays.                                                            *)
(***************************************************************************)
\* an interpolation that also refits the values it was given
interpolate_smoothing(s) ==
    [i \in 1..Len(s) |->
        IF i = 1 \/ i = Len(s) \/ s[i - 1] = NaN \/ s[i + 1] = NaN
        THEN s[i]
        ELSE (s[i - 1] + s[i + 1]) \div 2]

interpolate_linear(s) ==
    [i \in 1..Len(s) |->
        IF s[i] # NaN THEN s[i]
        ELSE LET before == {j \in 1..(i - 1) : s[j] # NaN}
                 after == {j \in (i + 1)..Len(s) : s[j] # NaN}
             IN  IF before = {} THEN NaN
                 ELSE IF after = {} THEN s[Max(before)]
                 ELSE LET p == Max(before)
                          q == Min(after)
                      IN  s[p] + ((s[q] - s[p]) * (i - p)) \div (q - p)]

\* tmp.interpolate(method='linear', axis=0), line 41: column by column
interpolate(t) ==
    [t EXCEPT !.values = [j \in 1..Len(t.values) |-> interpolate_linear(t.values[j])]]

(***************************************************************************)
(* Script 2: traces and scenario buttons (lines 78-131)                    *)
(***************************************************************************)
\* lines 84-87
initial_vis(sheet, country) ==
    IF sheet = default_sheet
    THEN (IF country \in highlight THEN "True" ELSE "legendonly")
    ELSE "False"

\* lines 92-109; `sheet` records the scenario whose loop pass added the trace
SheetTraces(sheet) ==
    LET df_sheet == df[sheet]
    IN  [idx \in 1..Len(df_sheet.columns) |->
            LET country == df_sheet.columns[idx]
            IN  [y |-> df_sheet.values[idx],
                 name |-> country,
                 legendgroup |-> country,
                 line_color |-> IF country = red_country THEN "red" ELSE colours[idx],
                 visible |-> initial_vis(sheet, country),
                 showlegend |-> TRUE,
                 sheet |-> sheet]]

AllTraces == Concat([k \in 1..Len(sheet_names) |-> SheetTraces(sheet_names[k])])

\* a mask that dims the other scenarios' series instead of hiding them
mask_entry_dimmed(s, sheet, country) ==
    IF s = sheet
    THEN (IF country \in highlight THEN "True" ELSE "legendonly")
    ELSE "legendonly"

\* lines 120-125
mask_entry(s, sheet, country) ==
    IF s = sheet
    THEN (IF country \in highlight THEN "True" ELSE "legendonly")
    ELSE "False"

\* lines 117-125
Mask(sheet) ==
    Concat([k \in 1..Len(sheet_names) |->
              [j \in 1..Len(df[sheet_names[k]].columns) |->
                  mask_entry(sheet_names[k], sheet, df[sheet_names[k]].columns[j])]])

\* sheet.replace('_', ' ').title(), line 116
scenario_label(sheet) ==
    CASE sheet = "single_no_children" -> "Single No Children"
      [] sheet = "single_two_children" -> "Single Two Children"
      [] sheet = "married_2_children" -> "Married 2 Children"
      [] sheet = "married_no_children" -> "Married No Children"

\* lines 127-131
ScenarioButton(sheet) ==
    [label |-> scenario_label(sheet), method |-> "update",
     args |-> <<[visible |-> Mask(sheet)]>>]

(***************************************************************************)
(* The start: one script, one state of the disk                            *)
(***************************************************************************)
AllSheets == Range(sheet_names)

Init ==
    /\ script \in {1, 2}
    /\ fileExists \in BOOLEAN
    /\ logoExists \in BOOLEAN
    /\ IF script = 1
       THEN /\ workbook_sheets \in {{SHEET}, {}}
            /\ raw \in RawTables
       ELSE /\ workbook_sheets \in {AllSheets} \cup {AllSheets \ {m} : m \in AllSheets}
            /\ raw \in [cols : [1..Len(sheet_names) -> ColumnLists], col : RawColumns]
    /\ pc = "read"
    /\ df = <<>>
    /\ sorted_data = <<>>
    /\ fig_data = <<>>
    /\ fig_layout = [ticktext |-> <<>>, tickvals |-> <<>>, images |-> <<>>]
    /\ buttons = <<>>
    /\ updatemenus = <<>>
    /\ stdout = <<>>
    /\ shown = FALSE
    /\ exported = FALSE

disk == <<script, fileExists, workbook_sheets, logoExists, raw>>

(***************************************************************************)
(* Script 1, statement by statement                                        *)
(***************************************************************************)
\* lines 25-34: read_excel raises when the file or the sheet is missing
ReadExcel1 ==
    /\ script = 1 /\ pc = "read"
    /\ IF fileExists /\ SHEET \in workbook_sheets
       THEN /\ df' = dropna(raw)
            /\ pc' = "sort"
       ELSE /\ pc' = "failed"
            /\ UNCHANGED df
    /\ UNCHANGED <<disk, sorted_data, fig_data, fig_layout, buttons, updatemenus,
                   stdout, shown, exported>>

\* lines 40-91: one pass of the loop over sort_columns_list
BuildView1 ==
    /\ script = 1 /\ pc = "sort"
    /\ LET k == Cardinality(DOMAIN sorted_data) + 1
           col_name == sort_columns_list[k]
       IN  /\ sorted_data' = (col_name :> BuildView(df, col_name)) @@ sorted_data
           /\ pc' = IF k = Len(sort_columns_list) THEN "figure" ELSE "sort"
    /\ UNCHANGED <<disk, df, fig_data, fig_layout, buttons, updatemenus, stdout,
                   shown, exported>>

\* lines 93-219: the traces from the initial View, the y-axis ticks
BuildFigure1 ==
    /\ script = 1 /\ pc = "figure"
    /\ fig_data' = InitialTraces
    /\ fig_layout' = [fig_layout EXCEPT !.tickvals = initial_data.country_order,
                                        !.ticktext = initial_data.tick_labels]
    /\ pc' = "controls"
    /\ UNCHANGED <<disk, df, sorted_data, buttons, updatemenus, stdout, shown,
                   exported>>

\* lines 222-305
BuildControls1 ==
    /\ script = 1 /\ pc = "controls"
    /\ buttons' = [k \in 1..Len(sort_columns_list) |-> SortButton(sort_columns_list[k])]
    /\ updatemenus' = <<sort_dropdown(buttons'), toggle_connectors_button>>
    /\ pc' = "logo"
    /\ UNCHANGED <<disk, df, sorted_data, fig_data, fig_layout, stdout, shown,
                   exported>>

\* the logo read without the guard of line 313
Logo1Unguarded ==
    /\ script = 1 /\ pc = "logo"
    /\ IF logoExists
       THEN /\ fig_layout' = [fig_layout EXCEPT !.images = Append(@, "logo")]
            /\ pc' = "show"
       ELSE /\ pc' = "failed"
            /\ UNCHANGED fig_layout
    /\ UNCHANGED <<disk, df, sorted_data, fig_data, buttons, updatemenus,
                   stdout, shown, exported>>

\* lines 312-326
Logo1 ==
    /\ script = 1 /\ pc = "logo"
    /\ IF logoExists
       THEN /\ fig_layout' = [fig_layout EXCEPT !.images = Append(@, "logo")]
            /\ UNCHANGED stdout
       ELSE /\ stdout' = Append(stdout, "Warning: Logo file not found")
            /\ UNCHANGED fig_layout
    /\ pc' = "show"
    /\ UNCHANGED <<disk, df, sorted_data, fig_data, buttons, updatemenus,
                   shown, exported>>

\* line 328
Show1 ==
    /\ script = 1 /\ pc = "show"
    /\ shown' = TRUE
    /\ pc' = "interactive"
    /\ UNCHANGED <<disk, df, sorted_data, fig_data, fig_layout, buttons,
                   updatemenus, stdout, exported>>

(***************************************************************************)
(* The rendered chart.  Plotly applies an array given to restyle trace by  *)
(* trace: entry k goes to the k-th trace addressed (all traces when no     *)
(* indices are given).  A click on an updatemenu button runs args, or args2*)
(* when the button has one and is the menu's active button, and moves the  *)
(* menu's active index.                                                    *)
(***************************************************************************)
Entry(arr, k, old) == IF k \in 1..Len(arr) THEN arr[k] ELSE old

\* a dropdown option that forgets the axis ticks
ApplySortWithoutTicks(b) ==
    LET restyle == updatemenus[1].buttons[b].args[1]
    IN  /\ fig_data' =
               [i \in 1..Len(fig_data) |->
                   [fig_data[i] EXCEPT
                       !.x = Entry(restyle.x, i, @),
                       !.y = Entry(restyle.y, i, @),
                       !.line_color = Entry(restyle.line_color, i, @),
                       !.line_width = Entry(restyle.line_width, i, @)]]
        /\ UNCHANGED fig_layout

\* a dropdown option that also writes visible = True to every trace
ApplySortResettingVisible(b) ==
    LET restyle == updatemenus[1].buttons[b].args[1]
        relayout == updatemenus[1].buttons[b].args[2]
    IN  /\ fig_data' =
               [i \in 1..Len(fig_data) |->
                   [fig_data[i] EXCEPT
                       !.x = Entry(restyle.x, i, @),
                       !.y = Entry(restyle.y, i, @),
                       !.line_color = Entry(restyle.line_color, i, @),
                       !.line_width = Entry(restyle.line_width, i, @),
                       !.visible = "True"]]
        /\ fig_layout' = [fig_layout EXCEPT !.ticktext = relayout.ticktext,
                                            !.tickvals = relayout.tickvals]

\* method "update" with the args of lines 237-251
ApplySort(b) ==
    LET restyle == updatemenus[1].buttons[b].args[1]
        relayout == updatemenus[1].buttons[b].args[2]
    IN  /\ fig_data' =
               [i \in 1..Len(fig_data) |->
                   [fig_data[i] EXCEPT
                       !.x = Entry(restyle.x, i, @),
                       !.y = Entry(restyle.y, i, @),
                       !.line_color = Entry(restyle.line_color, i, @),
                       !.line_width = Entry(restyle.line_width, i, @)]]
        /\ fig_layout' = [fig_layout EXCEPT !.ticktext = relayout.ticktext,
                                            !.tickvals = relayout.tickvals]

\* the user picks option b of the sort dropdown
SelectView(b) ==
    /\ script = 1 /\ pc = "interactive"
    /\ b \in 1..Len(updatemenus[1].buttons)
    /\ ApplySort(b)
    /\ updatemenus' = [updatemenus EXCEPT ![1].active = b - 1]
    /\ UNCHANGED <<disk, pc, df, sorted_data, buttons, stdout, shown, exported>>

\* restyle {'visible': vis} on the traces `indices` (0-based)
RestyleVisible(data, vis, indices) ==
    [i \in 1..Len(data) |->
        IF \E k \in 1..Len(indices) : indices[k] = i - 1
        THEN [data[i] EXCEPT !.visible =
                 vis[CHOOSE k \in 1..Len(indices) : indices[k] = i - 1]]
        ELSE data[i]]

\* the user presses 'Toggle Connectors'
PressToggle ==
    /\ script = 1 /\ pc = "interactive"
    /\ LET menu == updatemenus[2]
           button == menu.buttons[1]
       IN  IF menu.active = 0
           THEN /\ fig_data' = RestyleVisible(fig_data, button.args2[1].visible,
                                              button.args2[2])
                /\ updatemenus' = [updatemenus EXCEPT ![2].active = -1]
           ELSE /\ fig_data' = RestyleVisible(fig_data, button.args[1].visible,
                                              button.args[2])
                /\ updatemenus' = [updatemenus EXCEPT ![2].active = 0]
    /\ UNCHANGED <<disk, pc, df, sorted_data, fig_layout, buttons, stdout, shown,
                   exported>>

\* the user clicks the legend entry of trace i of script 1's chart:
\* shown <-> legend only
LegendClick(i) ==
    /\ script = 1 /\ pc = "interactive"
    /\ i \in 1..Len(fig_data)
    /\ fig_data[i].showlegend
    /\ fig_data[i].visible \in {"True", "legendonly"}
    /\ fig_data' = [fig_data EXCEPT ![i].visible =
                       IF @ = "True" THEN "legendonly" ELSE "True"]
    /\ UNCHANGED <<disk, pc, df, sorted_data, fig_layout, buttons, updatemenus,
                   stdout, shown, exported>>

(***************************************************************************)
(* Script 2, statement by statement                                        *)
(***************************************************************************)
\* lines 26-41: one pass of the loop over sheet_names; read_excel raises
\* when the file or the sheet is missing
LoadSheet2 ==
    /\ script = 2 /\ pc = "read"
    /\ LET k == Cardinality(DOMAIN df) + 1
           sheet == sheet_names[k]
       IN  IF fileExists /\ sheet \in workbook_sheets
           THEN /\ df' = (sheet :> interpolate(read_sheet(raw, k))) @@ df
                /\ pc' = IF k = Len(sheet_names) THEN "logo" ELSE "read"
           ELSE /\ pc' = "failed"
                /\ UNCHANGED df
    /\ UNCHANGED <<disk, sorted_data, fig_data, fig_layout, buttons, updatemenus,
                   stdout, shown, exported>>

\* line 62: Image.open raises when the logo file is missing
Logo2 ==
    /\ script = 2 /\ pc = "logo"
    /\ pc' = IF logoExists THEN "figure" ELSE "failed"
    /\ UNCHANGED <<disk, df, sorted_data, fig_data, fig_layout, buttons,
                   updatemenus, stdout, shown, exported>>

\* lines 74-109
BuildTraces2 ==
    /\ script = 2 /\ pc = "figure"
    /\ fig_data' = AllTraces
    /\ pc' = "controls"
    /\ UNCHANGED <<disk, df, sorted_data, fig_layout, buttons, updatemenus,
                   stdout, shown, exported>>

\* lines 114-167: the scenario dropdown (active is Plotly's default 0) and
\* the logo image
BuildControls2 ==
    /\ script = 2 /\ pc = "controls"
    /\ buttons' = [k \in 1..Len(sheet_names) |-> ScenarioButton(sheet_names[k])]
    /\ updatemenus' = <<[type |-> "dropdown", active |-> 0, buttons |-> buttons']>>
    /\ fig_layout' = [fig_layout EXCEPT !.images = <<"logo">>]
    /\ pc' = "show"
    /\ UNCHANGED <<disk, df, sorted_data, fig_data, stdout, shown, exported>>

\* line 172
Show2 ==
    /\ script = 2 /\ pc = "show"
    /\ shown' = TRUE
    /\ pc' = "export"
    /\ UNCHANGED <<disk, df, sorted_data, fig_data, fig_layout, buttons,
                   updatemenus, stdout, exported>>

\* line 173
Export2 ==
    /\ script = 2 /\ pc = "export"
    /\ exported' = TRUE
    /\ pc' = "interactive"
    /\ UNCHANGED <<disk, df, sorted_data, fig_data, fig_layout, buttons,
                   updatemenus, stdout, shown>>

\* the user picks option b of the scenario dropdown: method "update" with
\* the args of line 130
SelectScenario(b) ==
    /\ script = 2 /\ pc = "interactive"
    /\ b \in 1..Len(updatemenus[1].buttons)
    /\ LET mask == updatemenus[1].buttons[b].args[1].visible
       IN  fig_data' = [i \in 1..Len(fig_data) |->
                           [fig_data[i] EXCEPT !.visible = Entry(mask, i, @)]]
    /\ updatemenus' = [updatemenus EXCEPT ![1].active = b - 1]
    /\ UNCHANGED <<disk, pc, df, sorted_data, fig_layout, buttons, stdout, shown,
                   exported>>

(***************************************************************************)
(* The specification                                                       *)
(***************************************************************************)
Next ==
    \/ ReadExcel1
    \/ BuildView1
    \/ BuildFigure1
    \/ BuildControls1
    \/ Logo1
    \/ Show1
    \/ \E b \in 1..Len(sort_columns_list) : SelectView(b)
    \/ PressToggle
    \/ \E i \in 1..(MaxRows + Len(sort_columns_list)) : LegendClick(i)
    \/ LoadSheet2
    \/ Logo2
    \/ BuildTraces2
    \/ BuildControls2
    \/ Show2
    \/ Export2
    \/ \E b \in 1..Len(sheet_names) : SelectScenario(b)

Spec == Init /\ [][Next]_vars

(***************************************************************************)
(* Properties                                                              *)
(***************************************************************************)
S1 == script = 1
S2 == script = 2
InputPresent1 == fileExists /\ SHEET \in workbook_sheets
InputPresent2 == fileExists /\ workbook_sheets = AllSheets
Views == DOMAIN sorted_data
AllViewsBuilt == S1 /\ Views = Range(sort_columns_list)
CountriesOf(t) == {t[i].Country : i \in 1..Len(t)}
\* the wedge of country c in column col of df (countries are distinct)
Wedge(c, col) == (CHOOSE r \in Range(df) : r.Country = c)[col]
Highlighted(c) == "<b><span style='color:red;'>" \o c \o "</span></b>"
Connectors == 1..num_countries
Points == (num_countries + 1)..(num_countries + 3)
ConnectorsAllVisible == \A i \in Connectors : fig_data[i].visible = "True"
ConnectorsAllHidden == \A i \in Connectors : fig_data[i].visible = "False"
Flip(v) == IF v = "True" THEN "False" ELSE "True"

\* C3: every View built for a sort column lists its rows (country_order,
\* tick labels, connector entries 0..N-1) in an order in which that column's
\* wedges are non-increasing, and lists exactly the table's countries.
C3_SortedDescending ==
    \A col \in Views :
        LET v == sorted_data[col]
            order == v.country_order
        IN  /\ Len(order) = Len(df)
            /\ Range(order) = CountriesOf(df)
            /\ \A i, j \in 1..Len(order) :
                   i < j => Wedge(order[i], col) >= Wedge(order[j], col)
            /\ Len(v.tick_labels) = Len(order)
            /\ \A i \in 1..Len(order) :
                   /\ v.tick_labels[i] \in {order[i], Highlighted(order[i])}
                   /\ v.trace_y_values[i] = <<order[i], order[i], order[i]>>

\* a View of at least three rows whose order differs from the table's and
\* from the initial View's
C3_Witness ==
    /\ AllViewsBuilt
    /\ Len(df) >= 3
    /\ sorted_data["family_two_earners"].country_order # tolist(df, "Country")
    /\ sorted_data["family_two_earners"].country_order
           # sorted_data["single_worker"].country_order

\* C4: every View has the four trace arrays of length num_countries + 3, in
\* the trace order of the figure: first one connector entry per country (a
\* triple of wedges, three copies of the country, a colour and a width),
\* then the single_worker, family_single_earner and family_two_earners point
\* entries (no colour, no width), whose i-th value is the wedge of the
\* country of connector entry i.
C4_ViewShape ==
    /\ \A col \in Views :
        LET v == sorted_data[col]
            N == num_countries
        IN  /\ Len(v.trace_x_values) = N + 3
            /\ Len(v.trace_y_values) = N + 3
            /\ Len(v.trace_line_colors) = N + 3
            /\ Len(v.trace_line_widths) = N + 3
            /\ \A i \in 1..N :
                   /\ Len(v.trace_x_values[i]) = 3
                   /\ \E c \in CountriesOf(df) : v.trace_y_values[i] = <<c, c, c>>
                   /\ v.trace_line_colors[i] # None
                   /\ v.trace_line_widths[i] # None
            /\ \A k \in 1..3 :
                   /\ Len(v.trace_x_values[N + k]) = N
                   /\ Len(v.trace_y_values[N + k]) = N
                   /\ v.trace_line_colors[N + k] = None
                   /\ v.trace_line_widths[N + k] = None
                   /\ \A i \in 1..N :
                          /\ v.trace_y_values[N + k][i] = v.trace_y_values[i][1]
                          /\ v.trace_x_values[N + k][i] = v.trace_x_values[i][k]
                          /\ v.trace_x_values[N + k][i]
                                 = Wedge(v.trace_y_values[i][1], sort_columns_list[k])
    /\ (S1 /\ pc \in {"controls", "logo", "show", "interactive"}) =>
           /\ Len(fig_data) = num_countries + 3
           /\ \A i \in Connectors :
                  fig_data[i].mode = "lines" /\ ~fig_data[i].showlegend
           /\ [k \in 1..3 |-> fig_data[num_countries + k].name]
                  = <<"Single worker", "Single-earner family", "Two-earner family">>
           /\ \A i \in Points : fig_data[i].mode = "markers"

\* the three Views of a table of at least two countries, and the figure
C4_Witness ==
    /\ AllViewsBuilt
    /\ pc = "controls"
    /\ num_countries >= 2
    /\ Len(fig_data) = num_countries + 3

\* C6: in every View and every row, the connector entry is red and 3 wide
\* and the tick label carries the highlight markup exactly when the country
\* is 'United Kingdom'; every other row is gray, 1.5 wide, with its plain
\* name as label.
C6_HighlightOnlyUK ==
    \A col \in Views :
        LET v == sorted_data[col]
        IN  \A i \in 1..Len(v.country_order) :
                LET c == v.country_order[i]
                IN  IF c = "United Kingdom"
                    THEN /\ v.trace_line_colors[i] = "red"
                         /\ v.trace_line_widths[i] = "3"
                         /\ v.tick_labels[i] = Highlighted(c)
                    ELSE /\ v.trace_line_colors[i] = "gray"
                         /\ v.trace_line_widths[i] = "1.5"
                         /\ v.tick_labels[i] = c

\* the Views of a table holding 'United Kingdom' and 'united kingdom'
C6_Witness ==
    /\ AllViewsBuilt
    /\ {"United Kingdom", "united kingdom"} \subseteq CountriesOf(df)
    /\ \E i \in 1..num_countries :
           sorted_data["family_single_earner"].trace_line_colors[i] = "red"

\* C5: every scenario button's mask has one entry per trace of the figure
\* (the four scenarios' country columns, scenario by scenario, column by
\* column); an entry is True for a highlighted country of the button's
\* scenario, 'legendonly' for another country of that scenario, False for a
\* trace of another scenario; the traces start with the first button's mask.
C5_ScenarioMasks ==
    (S2 /\ pc \in {"show", "export", "interactive"}) =>
        LET expected_traces ==
                Concat([s \in 1..Len(sheet_names) |->
                    [j \in 1..Len(df[sheet_names[s]].columns) |->
                        <<sheet_names[s], df[sheet_names[s]].columns[j]>>]])
        IN  /\ Len(buttons) = Len(sheet_names)
            /\ [k \in 1..Len(fig_data) |-> <<fig_data[k].sheet, fig_data[k].name>>]
                   = expected_traces
            /\ \A b \in 1..Len(buttons) :
                   LET mask == buttons[b].args[1].visible
                   IN  /\ Len(mask) = Len(fig_data)
                       /\ \A k \in 1..Len(mask) :
                              mask[k] =
                                  IF fig_data[k].sheet # sheet_names[b] THEN "False"
                                  ELSE IF fig_data[k].name \in highlight THEN "True"
                                  ELSE "legendonly"
            /\ pc \in {"show", "export"} =>
                   \A k \in 1..Len(fig_data) :
                       fig_data[k].visible = buttons[1].args[1].visible[k]

\* scenarios with different numbers of columns, the chart just built
C5_Witness ==
    /\ S2 /\ pc = "show"
    /\ Len(df[sheet_names[1]].columns) # Len(df[sheet_names[2]].columns)
    /\ \E k \in 1..Len(fig_data) : fig_data[k].visible = "legendonly"

\* the View the sort dropdown shows as selected
ActiveView == sorted_data[sort_columns_list[updatemenus[1].active + 1]]

\* the traces and the y axis show the arrays of View v
Displays(v) ==
    /\ Len(fig_data) = Len(v.trace_x_values)
    /\ \A i \in 1..Len(fig_data) :
           /\ fig_data[i].x = v.trace_x_values[i]
           /\ fig_data[i].y = v.trace_y_values[i]
           /\ fig_data[i].line_color = v.trace_line_colors[i]
           /\ fig_data[i].line_width = v.trace_line_widths[i]
    /\ fig_layout.ticktext = v.tick_labels
    /\ fig_layout.tickvals = v.country_order

Arrays == <<[i \in 1..Len(fig_data) |->
                <<fig_data[i].x, fig_data[i].y, fig_data[i].line_color,
                  fig_data[i].line_width>>],
            fig_layout.ticktext, fig_layout.tickvals>>

VisibleOf(data) == [i \in 1..Len(data) |-> data[i].visible]

C8_State ==
    /\ (S1 /\ pc = "show") =>
           /\ updatemenus[1].active = 0
           /\ sort_columns_list[1] = "single_worker"
           /\ ConnectorsAllVisible
           /\ \A i \in Points : fig_data[i].visible = "True"
    /\ (S1 /\ pc \in {"show", "interactive"}) =>
           /\ Len(updatemenus[1].buttons) = Cardinality(Views)
           /\ \A k \in 1..Len(sort_columns_list) :
                  /\ sort_columns_list[k] \in Views
                  /\ updatemenus[1].buttons[k].label = button_label(sort_columns_list[k])
           /\ updatemenus[1].active \in 0..(Len(sort_columns_list) - 1)
           /\ Displays(ActiveView)

C8_Step ==
    /\ \A b \in 1..Len(sort_columns_list) :
           SelectView(b) => /\ updatemenus'[1].active = b - 1
                            /\ Displays(sorted_data[sort_columns_list[b]])'
    /\ PressToggle => /\ updatemenus'[1].active = updatemenus[1].active
                      /\ Arrays' = Arrays

\* C8: the chart starts on the first View, single_worker, with every trace
\* visible; the dropdown has one option per View; after any sequence of
\* selections and toggle presses the x, y, line colour and line width of
\* every trace and the y-axis ticks are those of the View selected last;
\* a toggle press changes neither the selected View nor those arrays.
C8_ChartShowsSelectedView == [](C8_State) /\ [][C8_Step]_vars

\* another View than the initial one selected, the connectors hidden
C8_Witness ==
    /\ S1 /\ pc = "interactive"
    /\ num_countries >= 2
    /\ updatemenus[1].active = 2
    /\ ActiveView.country_order # initial_data.country_order
    /\ ConnectorsAllHidden

\* C1 as stated: selecting any option of the sort dropdown leaves every
\* connector trace visible.
C1_SelectRestoresConnectors ==
    [][(\E b \in 1..Len(sort_columns_list) : SelectView(b))
           => ConnectorsAllVisible']_vars

\* C1 as amended: selecting any option of the sort dropdown leaves the
\* visibility of every trace as it was; hidden connectors stay hidden.
C1_SelectKeepsVisibility ==
    [][(\E b \in 1..Len(sort_columns_list) : SelectView(b))
           => VisibleOf(fig_data)' = VisibleOf(fig_data)]_vars

\* connectors hidden, a point trace legend-only, another View selected
C1_Witness ==
    /\ S1 /\ pc = "interactive"
    /\ num_countries >= 1
    /\ ConnectorsAllHidden
    /\ fig_data[num_countries + 1].visible = "legendonly"
    /\ updatemenus[1].active = 1

\* C2 as stated: a press of 'Toggle Connectors' flips the visibility of
\* every connector trace and leaves the visibility of the three point
\* traces as it was.
C2_ToggleFlipsOnlyConnectors ==
    [][PressToggle =>
           /\ \A i \in Connectors : fig_data'[i].visible = Flip(fig_data[i].visible)
           /\ \A i \in Points : fig_data'[i].visible = fig_data[i].visible]_vars

\* C7 as stated: after cleaning no table holds a missing value.
C7_NoMissingAfterCleaning ==
    /\ (S1 /\ pc \notin {"read", "failed"}) =>
           \A i \in 1..Len(df) :
               /\ df[i].Country # NaNText
               /\ \A k \in 1..Len(sort_columns_list) : df[i][sort_columns_list[k]] # NaN
    /\ S2 =>
           \A sheet \in DOMAIN df :
               \A j \in 1..Len(df[sheet].values) :
                   \A i \in 1..Len(df[sheet].values[j]) : df[sheet].values[j][i] # NaN

\* C9: without the logo file script 1 prints a warning, adds no image and
\* reaches fig.show() with the traces and both controls built, while script
\* 2 stops at the logo load, after the sheets and before any trace, button,
\* show or export; without the spreadsheet or a sheet neither script builds
\* a View, a mask or a trace.
C9_MissingFiles ==
    /\ (S1 /\ InputPresent1 /\ ~logoExists) =>
           /\ pc # "failed"
           /\ pc \in {"show", "interactive"} =>
                  /\ stdout = <<"Warning: Logo file not found">>
                  /\ fig_layout.images = <<>>
                  /\ Len(fig_data) = num_countries + 3
                  /\ Len(updatemenus) = 2
                  /\ Len(updatemenus[1].buttons) = Len(sort_columns_list)
                  /\ updatemenus[2].buttons[1].label = "Toggle Connectors"
           /\ pc = "interactive" => shown
    /\ (S1 /\ InputPresent1 /\ logoExists /\ pc \in {"show", "interactive"}) =>
           stdout = <<>> /\ fig_layout.images = <<"logo">>
    /\ (S2 /\ InputPresent2 /\ ~logoExists) =>
           /\ pc \in {"read", "logo", "failed"}
           /\ pc = "failed" => DOMAIN df = AllSheets
           /\ fig_data = <<>> /\ buttons = <<>> /\ updatemenus = <<>>
           /\ ~shown /\ ~exported
    /\ (S1 /\ ~InputPresent1) =>
           /\ pc \in {"read", "failed"}
           /\ sorted_data = <<>> /\ fig_data = <<>> /\ ~shown
    /\ (S2 /\ ~InputPresent2) =>
           /\ pc \in {"read", "failed"}
           /\ fig_data = <<>> /\ buttons = <<>> /\ ~shown /\ ~exported

\* script 1 past fig.show() without the logo file
C9_Witness ==
    /\ S1 /\ ~logoExists /\ pc = "interactive" /\ shown
    /\ num_countries >= 2

\* C10: interpolating a sheet without gaps returns the sheet as read, and
\* interpolating an interpolated sheet again changes nothing.
C10_InterpolateIdempotent ==
    S2 => \A k \in 1..Len(sheet_names) :
              sheet_names[k] \in DOMAIN df =>
                  /\ (NaN \notin Range(raw.col)) =>
                         df[sheet_names[k]] = read_sheet(raw, k)
                  /\ interpolate(df[sheet_names[k]]) = df[sheet_names[k]]

\* a loaded sheet without gaps whose wedges are not on a line, and no
\* fewer than three of them
C10_Witness ==
    /\ S2 /\ DOMAIN df = AllSheets
    /\ NaN \notin Range(raw.col)
    /\ Len(raw.col) >= 3
    /\ raw.col[1] = raw.col[3] /\ raw.col[1] # raw.col[2]

====
